---- MODULE Spec2Model ----
(***************************************************************************)
(* Content-calendar placement of autoposter-bot.                           *)
(*                                                                         *)
(*   planner : content_planner.get_post_schedule(df, weeks, posts_per_day) *)
(*   smart   : schedule_generator_new.get_planned_posts_for_week_smart()   *)
(*                                                                         *)
(* A date is the number of days since the start date of the run.  A title  *)
(* is the index of the catalog row (titles are distinct), a frequency is   *)
(* kept in halves (1 stands for 0.5, 2 for 1.0, 14 for 7.0) so that 0.5 is *)
(* an integer of the model.                                                *)
(***************************************************************************)
EXTENDS Integers, Sequences, FiniteSets, TLC

VARIABLES
    prog,            \* which entry point this run executes: "planner", "smart",
                     \* "priority" (calculate_message_priority), "main" or "live"
                     \* (post_message)
    is_valid,        \* main: the first value validate_input returned
    error_message,   \* main: the second value validate_input returned
    runs,            \* history: the number of runs of the entry point completed so far
    returned,        \* history: the list the previous run of get_post_schedule returned
    priority,        \* priority: the value calculate_message_priority returned, or None
    df,              \* planner: the catalog, a sequence of rows [B, C, E], E the row
                     \* numbers int(x.strip()) of the cell; main: E as the entries of
                     \* str(cell).split(','), each [kind, value]
    weeks,           \* planner: horizon length in weeks
    posts_per_day,   \* planner: maximum items per day
    all_days,        \* planner: all_days[w][d] is the list of titles of day d of week w
    placed_in_week,  \* planner: post -> counters per week (<<>> when the key is absent)
    placed_in_month, \* planner: post -> counters per month slot
    pc,              \* planner: position in the nested loops
    placed_count,    \* planner/smart: local counter of the running while loop
    attempts,        \* planner/smart: local counter of the running while loop
    iterations,      \* history: iterations of the running while loop so far
    reports,         \* planner: the under-placement messages printed so far
    under,           \* history: the loops that ended below their target
    schedule,        \* planner: the flat list returned, <<>> until it is returned
    messages,        \* smart: selector.messages, records [id, frequency_days, conflicts]
    last_sent,       \* smart: ledger, id -> days between last send and week start, or None
    sched,           \* smart: schedule[date], the list of message ids of each day
    spc,             \* smart: position in the function
    mwf_placed,      \* smart: message_weekly_frequency[id]['placed']
    planned_posts,   \* smart: the entries appended to the returned list for the last date
    planned_total,   \* smart: the length of the returned list so far
    today,           \* live: datetime.now(TIMEZONE).date(), in days
    message_history, \* live: the rows of the table, [message_id, sent_date, success]
    selected,        \* live: the id select_random_message returned last, or None
    success_count    \* live: success_count of the last run of post_message

vars == <<prog, is_valid, error_message, runs, returned, priority, df, weeks, posts_per_day, all_days, placed_in_week, placed_in_month,
          pc, placed_count, attempts, iterations, reports, under, schedule,
          messages, last_sent, sched, spc, mwf_placed, planned_posts, planned_total,
          today, message_history, selected, success_count>>

plannerVars == <<df, weeks, posts_per_day, all_days, placed_in_week, placed_in_month,
                 pc, reports, under, schedule>>
smartVars == <<messages, last_sent, sched, spc, mwf_placed, planned_posts, planned_total>>
liveVars == <<today, message_history, selected, success_count>>

-----------------------------------------------------------------------------
(* Bounds of the model *)

MaxRows == 2
MaxWeeks == 9
MaxPostsPerDay == 2
MaxMessages == 2

-----------------------------------------------------------------------------
(* Values *)

\* a missing cell (NaN) of the sheet, a missing ledger entry (None)
NaN == -1
\* the title of an explicitly empty slot ('')
EmptyTitle == 0
\* the frequency 0.5, in halves
Half == 1
\* the attempt budget of every placement loop
MaxAttempts == 50
\* the number of slots a day is padded to, and the number of times of day
PadSlots == 5
SlotCount == 5
\* len(POSTING_TIMES), the per-day capacity of the weekly calendar
PostingTimes == 3

Max2(a, b) == IF a >= b THEN a ELSE b
Min2(a, b) == IF a <= b THEN a ELSE b
Abs(x) == IF x >= 0 THEN x ELSE -x

\* int(x) of a float kept in halves: truncation toward zero
IntOfHalves(h) == IF h >= 0 THEN h \div 2 ELSE -((-h) \div 2)

RECURSIVE InsertSorted(_, _)
InsertSorted(s, x) ==
    IF s = <<>> THEN <<x>>
    ELSE IF x < Head(s) THEN <<x>> \o s
    ELSE <<Head(s)>> \o InsertSorted(Tail(s), x)

RECURSIVE SortedTuple(_)
SortedTuple(s) == IF s = <<>> THEN <<>> ELSE InsertSorted(SortedTuple(Tail(s)), Head(s))

Range(s) == {s[k] : k \in 1..Len(s)}

\* the sorted sequence of a finite set of integers
RECURSIVE SetToSortedSeq(_)
SetToSortedSeq(S) ==
    IF S = {} THEN <<>>
    ELSE LET m == CHOOSE x \in S : \A y \in S : x <= y
         IN <<m>> \o SetToSortedSeq(S \ {m})

-----------------------------------------------------------------------------
(* get_post_schedule, first and second pass: posts and alternation groups *)

Rows == [i \in 1..Len(df) |-> i]

row_number(i) == i + 1

HasWeekly(i) == df[i].B # NaN
HasMonthly(i) == df[i].B = NaN /\ df[i].C # NaN

weekly_posts == SelectSeq(Rows, HasWeekly)
monthly_posts == SelectSeq(Rows, HasMonthly)

RawFrequency(i) == IF HasWeekly(i) THEN df[i].B ELSE df[i].C

post_frequency(i) == IF RawFrequency(i) = Half THEN 1 ELSE IntOfHalves(RawFrequency(i))
post_interval(i) == IF RawFrequency(i) = Half THEN 2 ELSE 1

InitPlacedInWeek(i, nweeks) ==
    IF ~HasWeekly(i) THEN <<>>
    ELSE IF df[i].B = Half THEN [k \in 1..(nweeks + 1) |-> 0]
    ELSE [k \in 1..nweeks |-> 0]

InitPlacedInMonth(i, nweeks) ==
    IF ~HasMonthly(i) THEN <<>>
    ELSE IF df[i].C = Half THEN [k \in 1..(nweeks \div 8 + 1) |-> 0]
    ELSE [k \in 1..(nweeks \div 4 + 1) |-> 0]

Declares(i) == df[i].E # <<>>

group_key(i) == SortedTuple(<<row_number(i)>> \o df[i].E)

FirstDeclaration(i) ==
    /\ Declares(i)
    /\ \A j \in 1..(i - 1) : ~(Declares(j) /\ group_key(j) = group_key(i))

\* the rows that create a group, in the insertion order of the dict
group_rows == SelectSeq(Rows, FirstDeclaration)

InKey(p, key) == row_number(p) \in Range(key)

GroupPosts(key) == SelectSeq(weekly_posts \o monthly_posts, LAMBDA p : InKey(p, key))

GroupOf(i) ==
    LET is_weekly == df[i].B # NaN
        frequency_value == IF is_weekly THEN df[i].B ELSE df[i].C
        interval == IF frequency_value = Half THEN 2 ELSE 1
    IN [ key |-> group_key(i),
         weekly |-> is_weekly,
         frequency |-> IF frequency_value = Half THEN 1 ELSE IntOfHalves(frequency_value),
         interval_weeks |-> IF is_weekly THEN interval ELSE 1,
         interval_months |-> IF ~is_weekly THEN interval ELSE 1,
         posts |-> GroupPosts(group_key(i)) ]

alternation_groups == [k \in 1..Len(group_rows) |-> GroupOf(group_rows[k])]

in_alternation_group(p) ==
    \E k \in 1..Len(group_rows) : InKey(p, group_key(group_rows[k]))

-----------------------------------------------------------------------------
(* The grid and the validity check *)

DateOf(w, d) == d + w * 7

EmptyGrid(nweeks) == [w \in 0..(nweeks - 1) |-> [d \in 0..6 |-> <<>>]]

HasTitle(posts, t) == \E k \in 1..Len(posts) : posts[k] = t

can_add_post_no_window(days, week_idx, day_idx, post_title, is_monthly) ==
    LET near == Max2(0, week_idx - 1)..(Min2(Cardinality(DOMAIN days), week_idx + 2) - 1)
    IN /\ ~HasTitle(days[week_idx][day_idx], post_title)
       /\ is_monthly =>
             \A w \in near, d \in 0..6 : ~HasTitle(days[w][d], post_title)

can_add_post_any_day(days, week_idx, day_idx, post_title, is_monthly) ==
    LET current_day == DateOf(week_idx, day_idx)
        near == Max2(0, week_idx - 1)..(Min2(Cardinality(DOMAIN days), week_idx + 2) - 1)
    IN /\ \A w \in near, d \in 0..6 :
             (w # week_idx \/ d # day_idx) /\ Abs(DateOf(w, d) - current_day) <= 2
                 => ~HasTitle(days[w][d], post_title)
       /\ is_monthly =>
             \A w \in near, d \in 0..6 : ~HasTitle(days[w][d], post_title)

can_add_post_same_week_only(days, week_idx, day_idx, post_title, is_monthly) ==
    LET current_day == DateOf(week_idx, day_idx)
        near == Max2(0, week_idx - 1)..(Min2(Cardinality(DOMAIN days), week_idx + 2) - 1)
    IN /\ ~HasTitle(days[week_idx][day_idx], post_title)
       /\ \A w \in near, d \in 0..6 :
             Abs(DateOf(w, d) - current_day) <= 2 => ~HasTitle(days[w][d], post_title)
       /\ is_monthly =>
             \A d \in 0..6 : ~HasTitle(days[week_idx][d], post_title)

can_add_post(days, week_idx, day_idx, post_title, is_monthly) ==
    LET current_day == DateOf(week_idx, day_idx)
        near == Max2(0, week_idx - 1)..(Min2(Cardinality(DOMAIN days), week_idx + 2) - 1)
    IN /\ ~HasTitle(days[week_idx][day_idx], post_title)
       /\ \A w \in near, d \in 0..6 :
             Abs(DateOf(w, d) - current_day) <= 2 => ~HasTitle(days[w][d], post_title)
       /\ is_monthly =>
             \A w \in near, d \in 0..6 : ~HasTitle(days[w][d], post_title)

get_day_load(days, week_idx, day_idx) ==
    Cardinality({k \in 1..Len(days[week_idx][day_idx]) :
                    days[week_idx][day_idx][k] # EmptyTitle})

RECURSIVE SumLoads(_, _, _)
SumLoads(days, week_idx, d) ==
    IF d > 6 THEN 0 ELSE get_day_load(days, week_idx, d) + SumLoads(days, week_idx, d + 1)

get_week_load(days, week_idx) == SumLoads(days, week_idx, 0)

\* a sort that puts a pair before the pairs of equal load
RECURSIVE InsertByLoad_unstable(_, _)
InsertByLoad_unstable(s, x) ==
    IF s = <<>> THEN <<x>>
    ELSE IF x[2] <= Head(s)[2] THEN <<x>> \o s
    ELSE <<Head(s)>> \o InsertByLoad_unstable(Tail(s), x)

\* list.sort(key=lambda x: x[1]) is stable: pairs of equal load keep their order
RECURSIVE InsertByLoad(_, _)
InsertByLoad(s, x) ==
    IF s = <<>> THEN <<x>>
    ELSE IF x[2] < Head(s)[2] THEN <<x>> \o s
    ELSE <<Head(s)>> \o InsertByLoad(Tail(s), x)

RECURSIVE SortByLoad(_)
SortByLoad(s) ==
    IF s = <<>> THEN <<>>
    ELSE LET n == Len(s)
         IN InsertByLoad(SortByLoad(SubSeq(s, 1, n - 1)), s[n])

day_loads_unsorted(days, week_idx, ppd) ==
    LET open == SelectSeq([k \in 1..7 |-> k - 1],
                          LAMBDA d : Len(days[week_idx][d]) < ppd)
    IN [k \in 1..Len(open) |-> <<open[k], get_day_load(days, week_idx, open[k])>>]

day_loads_one_over(days, week_idx, ppd) ==
    LET open == SelectSeq([k \in 1..7 |-> k - 1],
                          LAMBDA d : Len(days[week_idx][d]) <= ppd)
    IN SortByLoad([k \in 1..Len(open) |-> <<open[k], get_day_load(days, week_idx, open[k])>>])

\* the pairs (day, load) of the days of the week under capacity, sorted by load
day_loads(days, week_idx, ppd) ==
    LET open == SelectSeq([k \in 1..7 |-> k - 1],
                          LAMBDA d : Len(days[week_idx][d]) < ppd)
    IN SortByLoad([k \in 1..Len(open) |-> <<open[k], get_day_load(days, week_idx, open[k])>>])

\* the pairs (week, load) of the weeks of a month, sorted by load
week_loads(days, month_start_week, month_end_week) ==
    SortByLoad([k \in 1..Max2(0, month_end_week - month_start_week)
                   |-> <<month_start_week + k - 1,
                         get_week_load(days, month_start_week + k - 1)>>])

\* the first element of a sequence that passes a test, as a sequence of 0 or 1
FirstThat(s, Test(_)) ==
    LET ok == SelectSeq(s, Test) IN IF ok = <<>> THEN <<>> ELSE <<Head(ok)>>

-----------------------------------------------------------------------------
(* get_post_schedule: the nested for loops around the placement loops *)

\* range(weeks) for the weekly loop, range(weeks // 4 + 1) for the monthly loop
LastPeriod(loop) == IF loop = "weekly" THEN weeks - 1 ELSE weeks \div 4

LoopPosts(loop) == IF loop = "weekly" THEN weekly_posts ELSE monthly_posts

ItemCount(loop, stage) ==
    IF stage = "groups" THEN Len(group_rows) ELSE Len(LoopPosts(loop))

Runs_no_skip(loop, period, stage, item) ==
    IF stage = "groups"
    THEN LET group == alternation_groups[item]
         IN IF loop = "weekly" THEN group.weekly ELSE ~group.weekly
    ELSE ~in_alternation_group(LoopPosts(loop)[item])

\* the for iteration reaches its while loop (none of its `continue` is taken)
Runs(loop, period, stage, item) ==
    IF stage = "groups"
    THEN LET group == alternation_groups[item]
         IN IF loop = "weekly"
            THEN group.weekly /\ ~(group.interval_weeks = 2 /\ period % 2 # 0)
            ELSE ~group.weekly /\ ~(group.interval_months = 2 /\ period % 2 # 0)
    ELSE LET post == LoopPosts(loop)[item]
         IN ~in_alternation_group(post) /\ ~(post_interval(post) = 2 /\ period % 2 # 0)

At(loop, period, stage, item) ==
    [loop |-> loop, period |-> period, stage |-> stage, item |-> item]

\* the first for iteration at or after a position that reaches its while loop
RECURSIVE Seek(_, _, _, _)
Seek(loop, period, stage, item) ==
    IF item > ItemCount(loop, stage)
    THEN IF stage = "groups" THEN Seek(loop, period, "posts", 1)
         ELSE IF period < LastPeriod(loop) THEN Seek(loop, period + 1, "groups", 1)
         ELSE IF loop = "weekly" THEN Seek("monthly", 0, "groups", 1)
         ELSE At("report", 0, "", 0)
    ELSE IF Runs(loop, period, stage, item) THEN At(loop, period, stage, item)
         ELSE Seek(loop, period, stage, item + 1)

weekly_post_index_no_interval(group, week_idx) == week_idx % Len(group.posts)

weekly_post_index(group, week_idx) ==
    (week_idx \div group.interval_weeks) % Len(group.posts)

monthly_post_index(group, month) == month % Len(group.posts)

InPlacement == pc.loop \in {"weekly", "monthly"}

CurGroup == alternation_groups[pc.item]

\* the post of the running for iteration
CurPost ==
    IF pc.stage = "groups"
    THEN CurGroup.posts[(IF pc.loop = "weekly"
                         THEN weekly_post_index(CurGroup, pc.period)
                         ELSE monthly_post_index(CurGroup, pc.period)) + 1]
    ELSE LoopPosts(pc.loop)[pc.item]

\* `frequency` of the running for iteration
CurFrequency ==
    IF pc.stage = "groups" THEN CurGroup.frequency ELSE post_frequency(CurPost)

month_start_week(month) == month * 4
month_end_week(month) == Min2((month + 1) * 4, weeks)

\* the loop that ends at pc with `count` placements, as the history records it
Ended(count) ==
    [post |-> CurPost, loop |-> pc.loop, period |-> pc.period,
     grouped |-> pc.stage = "groups", placed |-> count, target |-> CurFrequency]

\* leave the while loop with `count` placements and go to the next for iteration
Leave(count) ==
    /\ pc' = Seek(pc.loop, pc.period, pc.stage, pc.item + 1)
    /\ placed_count' = 0
    /\ attempts' = 0
    /\ iterations' = 0
    /\ under' = IF count < CurFrequency THEN under \cup {Ended(count)} ELSE under

Crash ==
    /\ pc' = At("crashed", 0, "", 0)
    /\ UNCHANGED <<placed_count, attempts, iterations, under>>

\* `while placed_count < frequency and attempts < 50`
KeepPlacing_one_more == placed_count <= CurFrequency /\ attempts < MaxAttempts

KeepPlacing == placed_count < CurFrequency /\ attempts < MaxAttempts

\* `if not placed: attempts += 1`
FailedAttempt_not_counted ==
    /\ attempts' = attempts
    /\ iterations' = iterations + 1

FailedAttempt ==
    /\ attempts' = attempts + 1
    /\ iterations' = iterations + 1

Bump(counters, post, index) ==
    [counters EXCEPT ![post] = [@ EXCEPT ![index] = @ + 1]]

\* one iteration of `while placed_count < frequency and attempts < 50` of a week
PlaceWeekly ==
    /\ prog = "planner"
    /\ pc.loop = "weekly"
    /\ KeepPlacing
    /\ LET post == CurPost
           loads == day_loads(all_days, pc.period, posts_per_day)
           fit == FirstThat(loads,
                     LAMBDA x : can_add_post(all_days, pc.period, x[1], post, FALSE))
       IN IF loads = <<>>
          THEN /\ Leave(placed_count)
               /\ UNCHANGED <<all_days, placed_in_week>>
          ELSE IF fit = <<>>
          THEN /\ FailedAttempt
               /\ UNCHANGED <<all_days, placed_in_week, pc, placed_count, under>>
          ELSE /\ all_days' = [all_days EXCEPT ![pc.period][fit[1][1]] = Append(@, post)]
               /\ IF placed_in_week[post] = <<>>
                  THEN Crash /\ UNCHANGED placed_in_week
                  ELSE /\ placed_in_week' = Bump(placed_in_week, post, pc.period + 1)
                       /\ placed_count' = placed_count + 1
                       /\ iterations' = iterations + 1
                       /\ UNCHANGED <<pc, attempts, under>>
    /\ UNCHANGED <<liveVars, prog, is_valid, error_message, runs, returned, priority, df, weeks, posts_per_day, placed_in_month, reports, schedule>>
    /\ UNCHANGED smartVars

\* the first (week, day) of the month, weeks by load and days by load, that passes
RECURSIVE FirstMonthlyFit(_, _, _, _)
FirstMonthlyFit(days, loads, ppd, post) ==
    IF loads = <<>> THEN <<>>
    ELSE LET week_idx == Head(loads)[1]
             fit == FirstThat(day_loads(days, week_idx, ppd),
                       LAMBDA x : can_add_post(days, week_idx, x[1], post, TRUE))
         IN IF fit # <<>> THEN <<week_idx, fit[1][1]>>
            ELSE FirstMonthlyFit(days, Tail(loads), ppd, post)

\* one iteration of `while placed_count < frequency and attempts < 50` of a month
PlaceMonthly ==
    /\ prog = "planner"
    /\ pc.loop = "monthly"
    /\ KeepPlacing
    /\ LET post == CurPost
           loads == week_loads(all_days, month_start_week(pc.period),
                               month_end_week(pc.period))
           fit == FirstMonthlyFit(all_days, loads, posts_per_day, post)
           month_for_post == pc.period \div post_interval(post)
       IN IF loads = <<>>
          THEN /\ Leave(placed_count)
               /\ UNCHANGED <<all_days, placed_in_month>>
          ELSE IF fit = <<>>
          THEN /\ FailedAttempt
               /\ UNCHANGED <<all_days, placed_in_month, pc, placed_count, under>>
          ELSE /\ all_days' = [all_days EXCEPT ![fit[1]][fit[2]] = Append(@, post)]
               /\ IF ~HasMonthly(post)
                  THEN Crash /\ UNCHANGED placed_in_month
                  ELSE /\ placed_in_month' =
                             IF month_for_post < Len(placed_in_month[post])
                             THEN Bump(placed_in_month, post, month_for_post + 1)
                             ELSE placed_in_month
                       /\ placed_count' = placed_count + 1
                       /\ iterations' = iterations + 1
                       /\ UNCHANGED <<pc, attempts, under>>
    /\ UNCHANGED <<liveVars, prog, is_valid, error_message, runs, returned, priority, df, weeks, posts_per_day, placed_in_week, reports, schedule>>
    /\ UNCHANGED smartVars

\* the while condition is false: the for loop goes on
EndPlacement ==
    /\ prog = "planner"
    /\ InPlacement
    /\ ~KeepPlacing
    /\ Leave(placed_count)
    /\ UNCHANGED <<liveVars, prog, is_valid, error_message, runs, returned, priority, df, weeks, posts_per_day, all_days, placed_in_week,
                   placed_in_month, reports, schedule>>
    /\ UNCHANGED smartVars

-----------------------------------------------------------------------------
(* get_post_schedule: the report, the balancing pass and the flat list *)

ReportsOf(posts, counters) ==
    UNION { { [post |-> p, loop |-> IF HasWeekly(p) THEN "weekly" ELSE "monthly",
               period |-> k - 1, placed |-> counters[p][k]] :
              k \in { j \in 1..Len(counters[p]) :
                        /\ (j - 1) % post_interval(p) = 0
                        /\ counters[p][j] < post_frequency(p) } } :
            p \in { q \in Range(posts) : ~in_alternation_group(q) } }

\* the two loops that print "Внимание: Пост ... размещен ... раз"
Report ==
    /\ prog = "planner"
    /\ pc.loop = "report"
    /\ reports' = ReportsOf(weekly_posts, placed_in_week)
                     \cup ReportsOf(monthly_posts, placed_in_month)
    /\ pc' = At("balance", 0, "", 0)
    /\ UNCHANGED <<liveVars, prog, is_valid, error_message, runs, returned, priority, df, weeks, posts_per_day, all_days, placed_in_week,
                   placed_in_month, placed_count, attempts, iterations, under, schedule>>
    /\ UNCHANGED smartVars

\* list.remove(post): the first equal element goes
RemoveFirst(posts, t) ==
    LET k == CHOOSE j \in 1..Len(posts) :
                 posts[j] = t /\ \A i \in 1..(j - 1) : posts[i] # t
    IN SubSeq(posts, 1, k - 1) \o SubSeq(posts, k + 1, Len(posts))

\* the body of `for adj_day in adjacent_days`
MoveOne(days, week_idx, day_idx, adj_day) ==
    IF get_day_load(days, week_idx, adj_day) # 0 THEN days
    ELSE LET movable == FirstThat(days[week_idx][day_idx],
                           LAMBDA t : /\ t # EmptyTitle
                                      /\ can_add_post(days, week_idx, adj_day, t, FALSE))
         IN IF movable = <<>> THEN days
            ELSE [days EXCEPT ![week_idx][adj_day] = Append(@, movable[1]),
                              ![week_idx][day_idx] = RemoveFirst(@, movable[1])]

\* the body of `for day_idx in range(7)`: current_load is read once
BalanceDay(days, week_idx, day_idx) ==
    IF get_day_load(days, week_idx, day_idx) > 2
    THEN LET before == IF day_idx - 1 >= 0
                       THEN MoveOne(days, week_idx, day_idx, day_idx - 1) ELSE days
         IN IF day_idx + 1 <= 6
            THEN MoveOne(before, week_idx, day_idx, day_idx + 1) ELSE before
    ELSE days

RECURSIVE BalanceFrom(_, _, _)
BalanceFrom(days, week_idx, day_idx) ==
    IF day_idx > 6 THEN days
    ELSE BalanceFrom(BalanceDay(days, week_idx, day_idx), week_idx, day_idx + 1)

\* one week of the balancing pass
BalanceWeek ==
    /\ prog = "planner"
    /\ pc.loop = "balance"
    /\ all_days' = BalanceFrom(all_days, pc.period, 0)
    /\ pc' = IF pc.period + 1 < weeks THEN At("balance", pc.period + 1, "", 0)
             ELSE At("flatten", 0, "", 0)
    /\ UNCHANGED <<liveVars, prog, is_valid, error_message, runs, returned, priority, df, weeks, posts_per_day, placed_in_week, placed_in_month,
                   placed_count, attempts, iterations, reports, under, schedule>>
    /\ UNCHANGED smartVars

\* `while len(day['posts']) < 5: append the empty post`
Padded(posts) == posts \o [k \in 1..Max2(0, PadSlots - Len(posts)) |-> EmptyTitle]

\* the entries of one day: post_slots[i] is the time of the i-th post
FlatDay(days, date) ==
    LET posts == days[date \div 7][date % 7]
    IN [i \in 1..Len(posts) |-> [day |-> date, time |-> i, title |-> posts[i]]]

RECURSIVE FlatFrom(_, _, _)
FlatFrom(days, date, ndays) ==
    IF date >= ndays THEN <<>>
    ELSE FlatDay(days, date) \o FlatFrom(days, date + 1, ndays)

\* the list is built and returned; post_slots[i] raises IndexError past its end
Flatten ==
    /\ prog = "planner"
    /\ pc.loop = "flatten"
    /\ LET padded == [w \in DOMAIN all_days |->
                         [d \in 0..6 |-> Padded(all_days[w][d])]]
       IN IF \E w \in DOMAIN all_days, d \in 0..6 : Len(padded[w][d]) > SlotCount
          THEN /\ pc' = At("crashed", 0, "", 0)
               /\ UNCHANGED <<all_days, schedule>>
          ELSE /\ pc' = At("done", 0, "", 0)
               /\ all_days' = padded
               /\ schedule' = FlatFrom(padded, 0, weeks * 7)
    /\ UNCHANGED <<liveVars, prog, is_valid, error_message, runs, returned, priority, df, weeks, posts_per_day, placed_in_week, placed_in_month,
                   placed_count, attempts, iterations, reports, under>>
    /\ UNCHANGED smartVars

-----------------------------------------------------------------------------
(* The inputs of a run of get_post_schedule *)

\* the variables of post_message before any run: the empty table
IdleLive ==
    /\ today = 0
    /\ message_history = {}
    /\ selected = NaN
    /\ success_count = 0

WeeklyFrequencies == {Half, 2, 4, 14}
MonthlyFrequencies == {Half, 2}

\* column E of row i of a sheet of n rows: empty, or the number of another row
Alternations(n, i) == {<<>>} \cup {<<r>> : r \in (2..(n + 1)) \ {i + 1}}

SheetRows(n, i) ==
    {[B |-> b, C |-> NaN, E |-> e] : b \in WeeklyFrequencies, e \in Alternations(n, i)}
    \cup {[B |-> NaN, C |-> c, E |-> e] :
               c \in MonthlyFrequencies, e \in Alternations(n, i)}

Catalogs ==
    UNION { {s \in [1..n -> UNION {SheetRows(n, i) : i \in 1..n}] :
                \A i \in 1..n : s[i] \in SheetRows(n, i)} : n \in 1..MaxRows }

\* one week, one month, and a horizon that reaches into the third month
Horizons == {1, 4, MaxWeeks}

InitPlanner ==
    /\ IdleLive
    /\ prog = "planner"
    /\ is_valid = TRUE
    /\ error_message = ""
    /\ runs = 0
    /\ returned = <<>>
    /\ priority = NaN
    /\ df \in Catalogs
    /\ weeks \in Horizons
    /\ posts_per_day \in 1..MaxPostsPerDay
    /\ all_days = EmptyGrid(weeks)
    /\ placed_in_week = [i \in 1..Len(df) |-> InitPlacedInWeek(i, weeks)]
    /\ placed_in_month = [i \in 1..Len(df) |-> InitPlacedInMonth(i, weeks)]
    /\ pc = Seek("weekly", 0, "groups", 1)
    /\ placed_count = 0
    /\ attempts = 0
    /\ iterations = 0
    /\ reports = {}
    /\ under = {}
    /\ schedule = <<>>
    /\ messages = <<>>
    /\ last_sent = <<>>
    /\ sched = <<>>
    /\ spc = [phase |-> "idle", idx |-> 0, left |-> 0]
    /\ mwf_placed = <<>>
    /\ planned_posts = <<>>
    /\ planned_total = 0

NextPlanner == PlaceWeekly \/ PlaceMonthly \/ EndPlacement \/ Report \/ BalanceWeek \/ Flatten

SpecPlanner == InitPlanner /\ [][NextPlanner]_vars

\* catalogs with items placed once, twice or four times a month next to weekly
\* items, over horizons of two months and more
MoreMonthlyFrequencies == {2, 4, 8}

MonthlyRows(n, i) ==
    {[B |-> b, C |-> NaN, E |-> e] : b \in {Half, 2}, e \in Alternations(n, i)}
    \cup {[B |-> NaN, C |-> c, E |-> e] :
               c \in MoreMonthlyFrequencies, e \in Alternations(n, i)}

MonthlyCatalogs ==
    UNION { {s \in [1..n -> UNION {MonthlyRows(n, i) : i \in 1..n}] :
                \A i \in 1..n : s[i] \in MonthlyRows(n, i)} : n \in 1..MaxRows }

MonthlyHorizons == {MaxWeeks - 1, MaxWeeks}

InitMonthly ==
    /\ IdleLive
    /\ prog = "planner"
    /\ is_valid = TRUE
    /\ error_message = ""
    /\ runs = 0
    /\ returned = <<>>
    /\ priority = NaN
    /\ df \in MonthlyCatalogs
    /\ weeks \in MonthlyHorizons
    /\ posts_per_day \in 1..MaxPostsPerDay
    /\ all_days = EmptyGrid(weeks)
    /\ placed_in_week = [i \in 1..Len(df) |-> InitPlacedInWeek(i, weeks)]
    /\ placed_in_month = [i \in 1..Len(df) |-> InitPlacedInMonth(i, weeks)]
    /\ pc = Seek("weekly", 0, "groups", 1)
    /\ placed_count = 0
    /\ attempts = 0
    /\ iterations = 0
    /\ reports = {}
    /\ under = {}
    /\ schedule = <<>>
    /\ messages = <<>>
    /\ last_sent = <<>>
    /\ sched = <<>>
    /\ spc = [phase |-> "idle", idx |-> 0, left |-> 0]
    /\ mwf_placed = <<>>
    /\ planned_posts = <<>>
    /\ planned_total = 0

SpecMonthly == InitMonthly /\ [][NextPlanner]_vars

\* catalogs of more items than a week has days, each placed once a week or once
\* a month, planned for one week
CrowdedRows == 8

CrowdedCatalogs ==
    [1..CrowdedRows -> {[B |-> 2, C |-> NaN, E |-> <<>>], [B |-> NaN, C |-> 2, E |-> <<>>]}]

InitCrowded ==
    /\ IdleLive
    /\ prog = "planner"
    /\ is_valid = TRUE
    /\ error_message = ""
    /\ runs = 0
    /\ returned = <<>>
    /\ priority = NaN
    /\ df \in CrowdedCatalogs
    /\ weeks = 1
    /\ posts_per_day \in 1..MaxPostsPerDay
    /\ all_days = EmptyGrid(weeks)
    /\ placed_in_week = [i \in 1..Len(df) |-> InitPlacedInWeek(i, weeks)]
    /\ placed_in_month = [i \in 1..Len(df) |-> InitPlacedInMonth(i, weeks)]
    /\ pc = Seek("weekly", 0, "groups", 1)
    /\ placed_count = 0
    /\ attempts = 0
    /\ iterations = 0
    /\ reports = {}
    /\ under = {}
    /\ schedule = <<>>
    /\ messages = <<>>
    /\ last_sent = <<>>
    /\ sched = <<>>
    /\ spc = [phase |-> "idle", idx |-> 0, left |-> 0]
    /\ mwf_placed = <<>>
    /\ planned_posts = <<>>
    /\ planned_total = 0

SpecCrowded == InitCrowded /\ [][NextPlanner]_vars

-----------------------------------------------------------------------------
(* schedule_generator_new: the validity check, the priority, the weekly target *)

HasId(posts, id) == \E k \in 1..Len(posts) : posts[k] = id

InWeek(date) == date \in 0..6

can_add_post_to_day_own_only(day_posts, date, message_id, conflict_ids) ==
    /\ ~HasId(day_posts[date], message_id)
    /\ \A days_offset \in (-2..2) \ {0} :
          InWeek(date + days_offset) => ~HasId(day_posts[date + days_offset], message_id)

can_add_post_to_day_same_day_only(day_posts, date, message_id, conflict_ids) ==
    /\ ~HasId(day_posts[date], message_id)
    /\ \A conflict_id \in conflict_ids : ~HasId(day_posts[date], conflict_id)

can_add_post_to_day_not_same_day(day_posts, date, message_id, conflict_ids) ==
    /\ \A conflict_id \in conflict_ids : ~HasId(day_posts[date], conflict_id)
    /\ \A days_offset \in (-2..2) \ {0} :
          InWeek(date + days_offset) => ~HasId(day_posts[date + days_offset], message_id)

can_add_post_to_day(day_posts, date, message_id, conflict_ids) ==
    /\ ~HasId(day_posts[date], message_id)
    /\ \A conflict_id \in conflict_ids : ~HasId(day_posts[date], conflict_id)
    /\ \A days_offset \in (-2..2) \ {0} :
          InWeek(date + days_offset) => ~HasId(day_posts[date + days_offset], message_id)

get_day_post_count(day_posts, date) == Len(day_posts[date])

\* the priority of message m at the first date of the week
calculate_message_priority_uncapped(m) ==
    LET frequency_days == messages[m].frequency_days
        days_passed == last_sent[m]
    IN IF last_sent[m] = NaN THEN 100
       ELSE IF days_passed < frequency_days THEN 0
       ELSE IF days_passed = frequency_days THEN 50
       ELSE 50 + (days_passed - frequency_days) * 5

calculate_message_priority(m) ==
    LET frequency_days == messages[m].frequency_days
        days_passed == last_sent[m]
    IN IF last_sent[m] = NaN THEN 100
       ELSE IF days_passed < frequency_days THEN 0
       ELSE IF days_passed = frequency_days THEN 50
       ELSE 50 + Min2((days_passed - frequency_days) * 5, 50)

\* sort(key=priority, reverse=True) is stable
RECURSIVE InsertByPriority(_, _)
InsertByPriority(s, m) ==
    IF s = <<>> THEN <<m>>
    ELSE IF calculate_message_priority(m) > calculate_message_priority(Head(s))
         THEN <<m>> \o s
         ELSE <<Head(s)>> \o InsertByPriority(Tail(s), m)

RECURSIVE SortByPriority(_)
SortByPriority(s) ==
    IF s = <<>> THEN <<>>
    ELSE LET n == Len(s) IN InsertByPriority(SortByPriority(SubSeq(s, 1, n - 1)), s[n])

\* the messages that may be published, highest priority first
message_priorities ==
    SortByPriority(SelectSeq([m \in 1..Len(messages) |-> m],
                             LAMBDA m : calculate_message_priority(m) > 0))

weekly_target(m) ==
    LET freq_days == messages[m].frequency_days
    IN IF freq_days <= 3 THEN 7 \div freq_days
       ELSE IF freq_days = 7 THEN 1
       ELSE IF freq_days = 14 THEN 1
       ELSE IF freq_days = 21 THEN 1
       ELSE 0

-----------------------------------------------------------------------------
(* get_planned_posts_for_week_smart *)

SAt(phase, idx, left) == [phase |-> phase, idx |-> idx, left |-> left]

\* the first date at or after `date` with a free slot, with its slots_to_fill
RECURSIVE SeekGap(_, _)
SeekGap(day_posts, date) ==
    IF date > 6 THEN SAt("convert", 0, 0)
    ELSE IF get_day_post_count(day_posts, date) < PostingTimes
         THEN SAt("gapfill", date, PostingTimes - get_day_post_count(day_posts, date))
         ELSE SeekGap(day_posts, date + 1)

\* the first message at or after position idx whose weekly target is not 0
RECURSIVE SeekMessage(_, _)
SeekMessage(day_posts, idx) ==
    IF idx > Len(message_priorities) THEN SeekGap(day_posts, 0)
    ELSE IF weekly_target(message_priorities[idx]) = 0 THEN SeekMessage(day_posts, idx + 1)
    ELSE SAt("primary", idx, 0)

\* lines 142-199: nothing to plan, or the empty week and the priorities
SmartBegin ==
    /\ prog = "smart"
    /\ spc.phase = "start"
    /\ IF messages = <<>>
       THEN /\ spc' = SAt("done", 0, 0)
            /\ UNCHANGED sched
       ELSE /\ sched' = [date \in 0..6 |-> <<>>]
            /\ spc' = SeekMessage([date \in 0..6 |-> <<>>], 1)
    /\ UNCHANGED <<liveVars, prog, is_valid, error_message, runs, returned, priority, messages, last_sent, mwf_placed, planned_posts, planned_total,
                   placed_count, attempts, iterations>>
    /\ UNCHANGED plannerVars

CurMessage == message_priorities[spc.idx]

SmartLeave ==
    /\ spc' = SeekMessage(sched, spc.idx + 1)
    /\ placed_count' = 0
    /\ attempts' = 0
    /\ iterations' = 0

\* one iteration of `while placed_count < target_freq and attempts < max_attempts`
SmartPlace ==
    /\ prog = "smart"
    /\ spc.phase = "primary"
    /\ placed_count < weekly_target(CurMessage) /\ attempts < MaxAttempts
    /\ LET m == CurMessage
           fits == {date \in 0..6 :
                      /\ get_day_post_count(sched, date) < PostingTimes
                      /\ can_add_post_to_day(sched, date, messages[m].id,
                                             messages[m].conflicts)}
           days_with_min_load ==
               {date \in fits : \A other \in fits :
                    get_day_post_count(sched, date) <= get_day_post_count(sched, other)}
       IN IF fits = {}
          THEN /\ SmartLeave
               /\ UNCHANGED <<sched, mwf_placed>>
          ELSE \E best_date \in days_with_min_load :
               /\ sched' = [sched EXCEPT ![best_date] = Append(@, messages[m].id)]
               /\ mwf_placed' = [mwf_placed EXCEPT ![m] = @ + 1]
               /\ placed_count' = placed_count + 1
               /\ attempts' = attempts + 1
               /\ iterations' = iterations + 1
               /\ UNCHANGED spc
    /\ UNCHANGED <<liveVars, prog, is_valid, error_message, runs, returned, priority, messages, last_sent, planned_posts, planned_total>>
    /\ UNCHANGED plannerVars

\* the while condition is false: the next message
SmartEndPlacement ==
    /\ prog = "smart"
    /\ spc.phase = "primary"
    /\ ~(placed_count < weekly_target(CurMessage) /\ attempts < MaxAttempts)
    /\ SmartLeave
    /\ UNCHANGED <<liveVars, prog, is_valid, error_message, runs, returned, priority, messages, last_sent, sched, mwf_placed, planned_posts,
                   planned_total>>
    /\ UNCHANGED plannerVars

\* one iteration of `for _ in range(slots_to_fill)`: the first message of a
\* shuffled copy of all messages that passes, or the empty slot
GapFill ==
    /\ prog = "smart"
    /\ spc.phase = "gapfill"
    /\ LET date == spc.idx
           fits == {m \in 1..Len(messages) :
                      can_add_post_to_day(sched, date, messages[m].id,
                                          messages[m].conflicts)}
           added(id) ==
               /\ sched' = [sched EXCEPT ![date] = Append(@, id)]
               /\ spc' = IF spc.left > 1 THEN SAt("gapfill", date, spc.left - 1)
                         ELSE SeekGap(sched', date + 1)
       IN IF fits = {} THEN added(NaN)
          ELSE \E m \in fits : added(messages[m].id)
    /\ UNCHANGED <<liveVars, prog, is_valid, error_message, runs, returned, priority, messages, last_sent, mwf_placed, planned_posts, planned_total,
                   placed_count, attempts, iterations>>
    /\ UNCHANGED plannerVars

Shuffles(posts) ==
    {p \in [1..Len(posts) -> 1..Len(posts)] :
        \A i, j \in 1..Len(posts) : i # j => p[i] # p[j]}

\* one date of the final loop: the day's posts are shuffled and the first
\* len(POSTING_TIMES) of them get the times of day in order
ConvertDay ==
    /\ prog = "smart"
    /\ spc.phase = "convert"
    /\ \E p \in Shuffles(sched[spc.idx]) :
          LET date_posts == [k \in 1..Len(sched[spc.idx]) |-> sched[spc.idx][p[k]]]
              kept == Min2(Len(date_posts), PostingTimes)
          IN /\ planned_posts' = [k \in 1..kept |->
                                     [date |-> spc.idx, time |-> k,
                                      message_id |-> date_posts[k]]]
             /\ planned_total' = planned_total + kept
    /\ spc' = IF spc.idx < 6 THEN SAt("convert", spc.idx + 1, 0) ELSE SAt("done", 0, 0)
    /\ UNCHANGED <<liveVars, prog, is_valid, error_message, runs, returned, priority, messages, last_sent, sched, mwf_placed,
                   placed_count, attempts, iterations>>
    /\ UNCHANGED plannerVars

-----------------------------------------------------------------------------
(* The inputs of a run of get_planned_posts_for_week_smart *)

FrequencyDays == {2, 7, 30}

\* the ledger at the start of the week: never sent, sent yesterday, sent 10 days ago
LedgerDays == {NaN, 1, 10}

MessageLists ==
    UNION { {s \in [1..n -> [id : 1..n, frequency_days : FrequencyDays,
                             conflicts : SUBSET (1..n)]] :
                \A i \in 1..n : s[i].id = i /\ i \notin s[i].conflicts}
            : n \in 0..MaxMessages }

InitSmart ==
    /\ IdleLive
    /\ prog = "smart"
    /\ is_valid = TRUE
    /\ error_message = ""
    /\ runs = 0
    /\ returned = <<>>
    /\ priority = NaN
    /\ messages \in MessageLists
    /\ last_sent \in [1..Len(messages) -> LedgerDays]
    /\ sched = <<>>
    /\ spc = SAt("start", 0, 0)
    /\ mwf_placed = [m \in 1..Len(messages) |-> 0]
    /\ planned_posts = <<>>
    /\ planned_total = 0
    /\ placed_count = 0
    /\ attempts = 0
    /\ iterations = 0
    /\ df = <<>>
    /\ weeks = 0
    /\ posts_per_day = 0
    /\ all_days = <<>>
    /\ placed_in_week = <<>>
    /\ placed_in_month = <<>>
    /\ pc = At("idle", 0, "", 0)
    /\ reports = {}
    /\ under = {}
    /\ schedule = <<>>

NextSmart == SmartBegin \/ SmartPlace \/ SmartEndPlacement \/ GapFill \/ ConvertDay

SpecSmart == InitSmart /\ [][NextSmart]_vars

-----------------------------------------------------------------------------
(* Both entry points *)

-----------------------------------------------------------------------------
(* calculate_message_priority on its own: one message, whose priority is asked
   for on the planning date and again on each following day *)

MaxDaysPassed == 45

PriorityFrequencies == {1, 2, 3, 7, 14, 21, 30}

\* the variables of get_post_schedule before any run
IdlePlanner ==
    /\ df = <<>>
    /\ weeks = 0
    /\ posts_per_day = 0
    /\ all_days = <<>>
    /\ placed_in_week = <<>>
    /\ placed_in_month = <<>>
    /\ pc = At("idle", 0, "", 0)
    /\ reports = {}
    /\ under = {}
    /\ schedule = <<>>

InitPriority ==
    /\ IdleLive
    /\ prog = "priority"
    /\ is_valid = TRUE
    /\ error_message = ""
    /\ runs = 0
    /\ returned = <<>>
    /\ priority = NaN
    /\ \E f \in PriorityFrequencies :
          messages = <<[id |-> 1, frequency_days |-> f, conflicts |-> {}]>>
    /\ last_sent \in {<<NaN>>, <<0>>}
    /\ sched = <<>>
    /\ spc = SAt("idle", 0, 0)
    /\ mwf_placed = <<0>>
    /\ planned_posts = <<>>
    /\ planned_total = 0
    /\ placed_count = 0
    /\ attempts = 0
    /\ iterations = 0
    /\ IdlePlanner

\* calculate_message_priority(message, current_date)
Prioritize ==
    /\ prog = "priority"
    /\ priority = NaN
    /\ priority' = calculate_message_priority(1)
    /\ UNCHANGED <<liveVars, prog, is_valid, error_message, runs, returned, placed_count, attempts, iterations>>
    /\ UNCHANGED plannerVars
    /\ UNCHANGED smartVars

\* the same call with current_date one day later and the ledger unchanged
PrioritizeNextDay ==
    /\ prog = "priority"
    /\ priority # NaN
    /\ last_sent[1] # NaN
    /\ last_sent[1] < MaxDaysPassed
    /\ last_sent' = <<last_sent[1] + 1>>
    /\ UNCHANGED <<messages, sched, spc, mwf_placed, planned_posts, planned_total>>
    /\ priority' = calculate_message_priority(1)'
    /\ UNCHANGED <<liveVars, prog, is_valid, error_message, runs, returned, placed_count, attempts, iterations>>
    /\ UNCHANGED plannerVars

NextPriority == Prioritize \/ PrioritizeNextDay

SpecPriority == InitPriority /\ [][NextPriority]_vars

\* two messages never sent before, with frequencies from every day to every
\* MaxFrequencyDays days, two and three weeks, and a month
MaxFrequencyDays == 8

TargetFrequencies == (1..MaxFrequencyDays) \cup {14, 21, 30}

InitTarget ==
    /\ IdleLive
    /\ prog = "smart"
    /\ is_valid = TRUE
    /\ error_message = ""
    /\ runs = 0
    /\ returned = <<>>
    /\ priority = NaN
    /\ \E f1, f2 \in TargetFrequencies :
          messages = <<[id |-> 1, frequency_days |-> f1, conflicts |-> {}],
                       [id |-> 2, frequency_days |-> f2, conflicts |-> {}]>>
    /\ last_sent = <<NaN, NaN>>
    /\ sched = <<>>
    /\ spc = SAt("start", 0, 0)
    /\ mwf_placed = <<0, 0>>
    /\ planned_posts = <<>>
    /\ planned_total = 0
    /\ placed_count = 0
    /\ attempts = 0
    /\ iterations = 0
    /\ IdlePlanner

SpecTarget == InitTarget /\ [][NextSmart]_vars

-----------------------------------------------------------------------------
(* post_message: the scheduled job, select_random_message and the table
   message_history. A row of the table is kept by the columns the queries read:
   message_id, sent_date and success. A run of the job starts and ends on the
   same date. *)

MaxDay == 3
MaxChannels == 2

CHANNEL_IDS == 1..MaxChannels

LiveFrequencies == {1, 2}

LiveMessageLists ==
    UNION { {s \in [1..n -> [id : 1..n, frequency_days : LiveFrequencies,
                             conflicts : SUBSET (1..n)]] :
                \A i \in 1..n : s[i].id = i /\ i \notin s[i].conflicts}
            : n \in 1..MaxMessages }

\* SELECT MAX(sent_date) FROM message_history WHERE message_id = ? AND success = 1
get_last_sent_date(message_id) ==
    LET dates == {r.sent_date : r \in {x \in message_history :
                                          x.message_id = message_id /\ x.success}}
    IN IF dates = {} THEN NaN ELSE CHOOSE d \in dates : \A e \in dates : e <= d

\* SELECT DISTINCT message_id FROM message_history WHERE sent_date = ? AND success = 1
get_today_sent_messages ==
    {r.message_id : r \in {x \in message_history : x.sent_date = today /\ x.success}}

is_message_available_one_day_early(m) ==
    LET last_sent_date == get_last_sent_date(messages[m].id)
    IN IF last_sent_date = NaN THEN TRUE
       ELSE today - last_sent_date >= messages[m].frequency_days - 1

is_message_available(m) ==
    LET last_sent_date == get_last_sent_date(messages[m].id)
    IN IF last_sent_date = NaN THEN TRUE
       ELSE today - last_sent_date >= messages[m].frequency_days

has_conflicts(m, today_sent_ids) == messages[m].conflicts \cap today_sent_ids # {}

get_available_messages ==
    {m \in 1..Len(messages) :
        is_message_available(m) /\ ~has_conflicts(m, get_today_sent_messages)}

\* INSERT INTO message_history with sent_date = today
log_message_sent(history, message_id, success) ==
    history \cup {[message_id |-> message_id, sent_date |-> today, success |-> success]}

RECURSIVE LogChannels(_, _, _, _)
LogChannels(history, message_id, sent, channel_id) ==
    IF channel_id > MaxChannels THEN history
    ELSE LogChannels(log_message_sent(history, message_id, sent[channel_id]),
                     message_id, sent, channel_id + 1)

InitLive ==
    /\ prog = "live"
    /\ is_valid = TRUE
    /\ error_message = ""
    /\ runs = 0
    /\ returned = <<>>
    /\ priority = NaN
    /\ messages \in LiveMessageLists
    /\ last_sent = <<>>
    /\ sched = <<>>
    /\ spc = SAt("idle", 0, 0)
    /\ mwf_placed = <<>>
    /\ planned_posts = <<>>
    /\ planned_total = 0
    /\ placed_count = 0
    /\ attempts = 0
    /\ iterations = 0
    /\ IdlePlanner
    /\ IdleLive

\* one run of the job: a random available message is sent to every channel,
\* each send succeeds or fails, and each is logged
post_message ==
    /\ prog = "live"
    /\ IF get_available_messages = {}
       THEN /\ selected' = NaN
            /\ success_count' = 0
            /\ UNCHANGED message_history
       ELSE \E m \in get_available_messages : \E sent \in [CHANNEL_IDS -> BOOLEAN] :
               /\ selected' = messages[m].id
               /\ success_count' = Cardinality({c \in CHANNEL_IDS : sent[c]})
               /\ message_history' = LogChannels(message_history, messages[m].id, sent, 1)
    /\ UNCHANGED <<today, prog, is_valid, error_message, runs, returned, priority,
                   placed_count, attempts, iterations>>
    /\ UNCHANGED plannerVars
    /\ UNCHANGED smartVars

\* midnight passes between two runs of the job
NextDay ==
    /\ prog = "live"
    /\ today < MaxDay
    /\ today' = today + 1
    /\ UNCHANGED <<message_history, selected, success_count, prog, is_valid,
                   error_message, runs, returned, priority, placed_count, attempts,
                   iterations>>
    /\ UNCHANGED plannerVars
    /\ UNCHANGED smartVars

NextLive == post_message \/ NextDay

SpecLive == InitLive /\ [][NextLive]_vars

-----------------------------------------------------------------------------
(* main of content_planner: validate_input, then get_post_schedule *)

\* `pd.notna(row['B']) and pd.notna(row['C'])`
BothSet_never(row) == FALSE

BothSet(row) == row.B # NaN /\ row.C # NaN

\* int(x.strip()) raises ValueError unless the text is that of an integer
Parses(entry) == entry.kind = "int"

\* the outcome of one row of validate_input: "" when the row passes
row_error(row, nrows) ==
    IF BothSet(row) THEN "both"
    ELSE IF row.E = <<>> THEN ""
    ELSE IF \E k \in 1..Len(row.E) : ~Parses(row.E[k]) THEN "format"
    ELSE IF \E k \in 1..Len(row.E) : row.E[k].value < 2 \/ row.E[k].value > nrows + 1
         THEN "row"
    ELSE ""

\* the message of the first row that fails, "" when every row passes
RECURSIVE validate_from(_, _)
validate_from(sheet, i) ==
    IF i > Len(sheet) THEN ""
    ELSE IF row_error(sheet[i], Len(sheet)) # "" THEN row_error(sheet[i], Len(sheet))
    ELSE validate_from(sheet, i + 1)

validate_input(sheet) == validate_from(sheet, 1)

\* the row as get_post_schedule reads it: E parsed again (line 172)
ParsedRow(row) ==
    [B |-> row.B, C |-> row.C, E |-> [k \in 1..Len(row.E) |-> row.E[k].value]]

ParsedSheet(sheet) == [i \in 1..Len(sheet) |-> ParsedRow(sheet[i])]

\* float(NaN) of the row that creates a group: int(nan) raises ValueError, in
\* calculate_recommended_posts_per_day and at line 190 of get_post_schedule
NaNDeclaration ==
    \E i \in 1..Len(df) : FirstDeclaration(i) /\ df[i].B = NaN /\ df[i].C = NaN

\* cells of columns B and C as read: empty, -1, 0, 0.5, 1, 1.5
RawWeekly == {NaN, -2, 0, Half, 2, 3}
RawMonthly == {NaN, 0, Half, 2}

Entry(kind, value) == [kind |-> kind, value |-> value]

\* cells of column E of a sheet of n rows: empty, the text of an integer from the
\* header row to the row past the last one, the float 2.0, a word
RawAlternations(n) ==
    {<<>>} \cup {<<Entry("int", r)>> : r \in 1..(n + 2)}
           \cup {<<Entry("float", 2)>>, <<Entry("word", NaN)>>}

RawSheets ==
    UNION { [1..n -> [B : RawWeekly, C : RawMonthly, E : RawAlternations(n)]]
            : n \in 1..MaxRows }

\* the horizons and capacities typed in after validation
MainHorizons == {1, 4}

InitMain ==
    /\ IdleLive
    /\ prog = "main"
    /\ is_valid = FALSE
    /\ error_message = ""
    /\ runs = 0
    /\ returned = <<>>
    /\ priority = NaN
    /\ df \in RawSheets
    /\ weeks = 0
    /\ posts_per_day = 0
    /\ all_days = <<>>
    /\ placed_in_week = <<>>
    /\ placed_in_month = <<>>
    /\ pc = At("validate", 0, "", 0)
    /\ placed_count = 0
    /\ attempts = 0
    /\ iterations = 0
    /\ reports = {}
    /\ under = {}
    /\ schedule = <<>>
    /\ messages = <<>>
    /\ last_sent = <<>>
    /\ sched = <<>>
    /\ spc = SAt("idle", 0, 0)
    /\ mwf_placed = <<>>
    /\ planned_posts = <<>>
    /\ planned_total = 0

\* `is_valid, error_message = validate_input(df)`, and the return of main
ValidateInput ==
    /\ prog = "main"
    /\ pc.loop = "validate"
    /\ error_message' = validate_input(df)
    /\ is_valid' = (validate_input(df) = "")
    /\ pc' = IF validate_input(df) = "" THEN At("input", 0, "", 0)
             ELSE At("rejected", 0, "", 0)
    /\ UNCHANGED <<liveVars, prog, runs, returned, priority, df, weeks, posts_per_day, all_days,
                   placed_in_week,
                   placed_in_month, placed_count, attempts, iterations, reports,
                   under, schedule>>
    /\ UNCHANGED smartVars

\* weeks and posts_per_day are typed in and get_post_schedule is called: its
\* first and second pass and the empty grid
StartPlanning ==
    /\ prog = "main"
    /\ pc.loop = "input"
    /\ prog' = "planner"
    /\ df' = ParsedSheet(df)
    /\ weeks' \in MainHorizons
    /\ posts_per_day' \in 1..MaxPostsPerDay
    /\ all_days' = EmptyGrid(weeks')
    /\ placed_in_week' = [i \in 1..Len(df) |-> InitPlacedInWeek(i, weeks)]'
    /\ placed_in_month' = [i \in 1..Len(df) |-> InitPlacedInMonth(i, weeks)]'
    /\ pc' = IF NaNDeclaration' THEN At("crashed", 0, "", 0)
             ELSE Seek("weekly", 0, "groups", 1)'
    /\ UNCHANGED <<liveVars, is_valid, error_message, runs, returned, priority, placed_count, attempts,
                   iterations, reports, under, schedule>>
    /\ UNCHANGED smartVars

NextMain == ValidateInput \/ StartPlanning \/ NextPlanner

SpecMain == InitMain /\ [][NextMain]_vars

-----------------------------------------------------------------------------

Init == InitPlanner \/ InitSmart

Next == NextPlanner \/ NextSmart

Spec == Init /\ [][Next]_vars

-----------------------------------------------------------------------------
(* The entry points called again with the same catalog and the same ledger *)

MaxRuns == 2

\* the grid of the previous call, were it kept
NewGrid_kept ==
    [w \in DOMAIN all_days |->
        [d \in 0..6 |-> SelectSeq(all_days[w][d], LAMBDA t : t # EmptyTitle)]]

\* `all_days = []` and the loops that fill it with days without posts
NewGrid == EmptyGrid(weeks)

\* get_post_schedule(df, weeks, posts_per_day) is called once more: every list,
\* dict and counter of lines 114-217 is built anew
PlanAgain ==
    /\ prog = "planner"
    /\ pc.loop = "done"
    /\ runs < MaxRuns
    /\ runs' = runs + 1
    /\ returned' = schedule
    /\ all_days' = NewGrid
    /\ placed_in_week' = [i \in 1..Len(df) |-> InitPlacedInWeek(i, weeks)]
    /\ placed_in_month' = [i \in 1..Len(df) |-> InitPlacedInMonth(i, weeks)]
    /\ pc' = Seek("weekly", 0, "groups", 1)
    /\ placed_count' = 0
    /\ attempts' = 0
    /\ iterations' = 0
    /\ reports' = {}
    /\ under' = {}
    /\ schedule' = <<>>
    /\ UNCHANGED <<liveVars, prog, is_valid, error_message, priority, df, weeks, posts_per_day>>
    /\ UNCHANGED smartVars

\* get_planned_posts_for_week_smart() is called once more on the same day
SmartAgain ==
    /\ prog = "smart"
    /\ spc.phase = "done"
    /\ runs < MaxRuns
    /\ runs' = runs + 1
    /\ sched' = <<>>
    /\ spc' = SAt("start", 0, 0)
    /\ mwf_placed' = [m \in 1..Len(messages) |-> 0]
    /\ planned_posts' = <<>>
    /\ planned_total' = 0
    /\ placed_count' = 0
    /\ attempts' = 0
    /\ iterations' = 0
    /\ UNCHANGED <<liveVars, prog, is_valid, error_message, returned, priority, messages, last_sent>>
    /\ UNCHANGED plannerVars

\* one week of the calendar, and at most one message
InitRepeat == (InitPlanner /\ weeks = 1) \/ (InitSmart /\ Len(messages) <= 1)

NextRepeat == Next \/ PlanAgain \/ SmartAgain

SpecRepeat == InitRepeat /\ [][NextRepeat]_vars

\* get_post_schedule called again and again on one catalog, over every horizon
NextPlanAgain == NextPlanner \/ PlanAgain

SpecPlanAgain == InitPlanner /\ [][NextPlanAgain]_vars

-----------------------------------------------------------------------------
(* Properties *)

PlannerRuns == prog = "planner"
SmartRuns == prog = "smart" /\ sched # <<>>

PlannerDone == prog = "planner" /\ pc.loop = "done"

Titles == 1..Len(df)

\* the dates of the grid that hold title t
DatesOf(t) ==
    {DateOf(w, d) : w \in DOMAIN all_days, d \in 0..6} \cap
    {date \in 0..(weeks * 7 - 1) : HasTitle(all_days[date \div 7][date % 7], t)}

\* the dates of the returned list that hold title t
ListedDatesOf(t) == {schedule[k].day : k \in {j \in 1..Len(schedule) : schedule[j].title = t}}

\* the dates of the weekly calendar that hold message id
SmartDatesOf(id) == {date \in 0..6 : HasId(sched[date], id)}

MessageIds == {messages[m].id : m \in 1..Len(messages)}

FarApart(dates) == \A a, b \in dates : a # b => Abs(a - b) > 2

Occurrences(posts, x) == Cardinality({k \in 1..Len(posts) : posts[k] = x})

\* C1: two filled entries of the same item are never 1 or 2 days apart, in the
\* grid of get_post_schedule at every step (weeks apart or not), in the list it
\* returns, and in the week of get_planned_posts_for_week_smart at every step
\* of the primary pass and of the gap fill.
C1_Spacing ==
    /\ PlannerRuns => \A t \in Titles : FarApart(DatesOf(t)) /\ FarApart(ListedDatesOf(t))
    /\ SmartRuns => \A id \in MessageIds : FarApart(SmartDatesOf(id))

\* a returned schedule with one item 3 days apart across a week boundary
C1_Witness ==
    /\ PlannerDone
    /\ \E t \in Titles : \E a, b \in ListedDatesOf(t) :
          b - a = 3 /\ a \div 7 # b \div 7

\* C2: no day holds two filled entries of the same item, in every state of
\* either planning run and in the returned list.
C2_NoDuplicatePerDay ==
    /\ PlannerRuns =>
          /\ \A w \in DOMAIN all_days, d \in 0..6, t \in Titles :
                Occurrences(all_days[w][d], t) <= 1
          /\ \A t \in Titles : \A date \in ListedDatesOf(t) :
                Cardinality({k \in 1..Len(schedule) :
                                schedule[k].day = date /\ schedule[k].title = t}) = 1
    /\ SmartRuns =>
          \A date \in 0..6, id \in MessageIds : Occurrences(sched[date], id) <= 1

\* a day of the running week holds the post being placed and has a free slot:
\* the attempt that failed was refused a second entry on that day
C2_Witness ==
    /\ prog = "planner" /\ pc.loop = "weekly" /\ attempts > 0
    /\ \E d \in 0..6 :
          /\ HasTitle(all_days[pc.period][d], CurPost)
          /\ get_day_load(all_days, pc.period, d) < posts_per_day

Conflicts(m) == messages[m].conflicts

\* C3: in the week of get_planned_posts_for_week_smart no day holds an item X
\* together with an item Y of X's conflict list, whether or not Y lists X.
C3_ConflictInvariant ==
    SmartRuns =>
        \A date \in 0..6, x \in 1..Len(messages) : \A y \in Conflicts(x) :
            ~(HasId(sched[date], messages[x].id) /\ HasId(sched[date], y))

EntriesOn(date) == {k \in 1..Len(schedule) : schedule[k].day = date}

\* C4: every date of the horizon has exactly posts_per_day entries in the list
\* that get_post_schedule returns.
C4_CapacityInvariant ==
    PlannerDone =>
        \A date \in 0..(weeks * 7 - 1) : Cardinality(EntriesOn(date)) = posts_per_day

\* (date, time) pairs are unique and the entries are in chronological order
TotalGrid ==
    /\ \A date \in 0..(weeks * 7 - 1) : EntriesOn(date) # {}
    /\ \A k \in 1..Len(schedule) : schedule[k].day \in 0..(weeks * 7 - 1)
    /\ \A k, j \in 1..Len(schedule) :
          k < j => \/ schedule[k].day < schedule[j].day
                   \/ /\ schedule[k].day = schedule[j].day
                      /\ schedule[k].time < schedule[j].time

\* C5: get_post_schedule raises no exception, and the list it returns holds
\* every date of the horizon, each (date, time) pair once, in chronological order.
C5_TotalGrid ==
    PlannerRuns => /\ pc.loop # "crashed"
                   /\ pc.loop = "done" => TotalGrid

InLoop ==
    \/ prog = "planner" /\ InPlacement
    \/ prog = "smart" /\ spc.phase = "primary"

Target == IF prog = "planner" THEN CurFrequency ELSE weekly_target(CurMessage)

Terminated ==
    \/ prog = "planner" /\ pc.loop \in {"done", "crashed"}
    \/ prog = "smart" /\ spc.phase = "done"

LoopBounds ==
    InLoop =>
        /\ placed_count <= Max2(Target, 0)
        /\ attempts <= MaxAttempts
        /\ iterations = (IF prog = "planner" THEN placed_count + attempts ELSE attempts)
        /\ iterations <= Max2(Target, 0) + MaxAttempts

PhaseNo(loop) ==
    CASE loop = "weekly" -> 0
      [] loop = "monthly" -> 1
      [] loop = "report" -> 2
      [] loop = "balance" -> 3
      [] loop = "flatten" -> 4
      [] OTHER -> 5

StageNo(stage) == IF stage = "posts" THEN 1 ELSE 0

\* position p of get_post_schedule comes before position q in program order
Before(p, q) ==
    \/ PhaseNo(p.loop) < PhaseNo(q.loop)
    \/ /\ p.loop = q.loop
       /\ \/ p.period < q.period
          \/ /\ p.period = q.period
             /\ \/ StageNo(p.stage) < StageNo(q.stage)
                \/ p.stage = q.stage /\ p.item < q.item

SmartPhaseNo(phase) ==
    CASE phase = "start" -> 0
      [] phase = "primary" -> 1
      [] phase = "gapfill" -> 2
      [] phase = "convert" -> 3
      [] OTHER -> 4

\* position p of get_planned_posts_for_week_smart comes before position q
SmartBefore(p, q) ==
    \/ SmartPhaseNo(p.phase) < SmartPhaseNo(q.phase)
    \/ /\ p.phase = q.phase
       /\ \/ p.idx < q.idx
          \/ p.idx = q.idx /\ p.left > q.left

\* a step either moves on in program order, or is one more iteration of the
\* running while loop, counted against its target or its budget of attempts
Progress ==
    /\ ~Terminated
    /\ IF prog = "planner"
       THEN \/ Before(pc, pc')
            \/ /\ pc' = pc /\ InPlacement
               /\ iterations' = iterations + 1
               /\ placed_count' + attempts' = placed_count + attempts + 1
       ELSE \/ SmartBefore(spc, spc')
            \/ /\ spc' = spc /\ spc.phase = "primary"
               /\ iterations' = iterations + 1
               /\ attempts' = attempts + 1
    /\ LoopBounds'

\* C6: every step of a run advances it: it moves forward in the finite program
\* order of the for loops and phases, or it is one more iteration of the running
\* while loop, and a while loop never places more than its target, never uses
\* more than 50 attempts and never runs more than target + 50 iterations. No
\* step leaves a finished run, so every run is finite.
C6_Termination == [][Progress]_vars

\* a loop of get_post_schedule that has used its whole budget of attempts
C6_Witness ==
    /\ prog = "planner" /\ InPlacement
    /\ attempts = MaxAttempts /\ placed_count > 0 /\ placed_count < CurFrequency

\* the members of a group in row order
MembersInRowOrder(group) ==
    SetToSortedSeq({post \in Titles : row_number(post) \in Range(group.key)})

AllWeekly(group) == \A post \in Range(MembersInRowOrder(group)) : HasWeekly(post)
AllMonthly(group) == \A post \in Range(MembersInRowOrder(group)) : HasMonthly(post)

InGroupIteration(loop) ==
    prog = "planner" /\ pc.loop = loop /\ pc.stage = "groups"

\* m[(i // L) % k] of the claim, for period i
Rotation(group, i, L) ==
    MembersInRowOrder(group)[((i \div L) % Len(MembersInRowOrder(group))) + 1]

\* C7: the member of a weekly alternation group that is attempted in a
\* non-skipped week i is m[(i // L) % k], members taken in row order.
C7_WeeklyRotation ==
    InGroupIteration("weekly") /\ AllWeekly(CurGroup) =>
        CurPost = Rotation(CurGroup, pc.period, CurGroup.interval_weeks)

\* week 2 of a group of two members with interval 2: the second member is up
C7_Witness ==
    /\ InGroupIteration("weekly") /\ AllWeekly(CurGroup)
    /\ CurGroup.interval_weeks = 2 /\ pc.period = 2
    /\ Len(MembersInRowOrder(CurGroup)) = 2
    /\ CurPost = MembersInRowOrder(CurGroup)[2]
    /\ placed_count = 1

\* C8: the member of a monthly alternation group that is attempted in an
\* active month m is members[(m // L) % k].
C8_MonthlyRotation ==
    InGroupIteration("monthly") /\ AllMonthly(CurGroup)
                                /\ month_start_week(pc.period) < weeks =>
        CurPost = Rotation(CurGroup, pc.period, CurGroup.interval_months)

WeeklyTip == <<[B |-> 4, C |-> NaN, E |-> <<>>]>>

\* C9: a catalog of one standalone item of weekly frequency 2 gets exactly 2
\* entries in every week of the returned list, more than 2 days apart.
C9_TargetReached ==
    PlannerDone /\ df = WeeklyTip =>
        \A w \in 0..(weeks - 1) :
            LET dates == {date \in ListedDatesOf(1) : date \div 7 = w}
                entries == {k \in 1..Len(schedule) :
                               schedule[k].title = 1 /\ schedule[k].day \div 7 = w}
            IN Cardinality(entries) = 2 /\ Cardinality(dates) = 2 /\ FarApart(dates)

\* the one-item catalog planned over several weeks with one slot per day
C9_Witness ==
    PlannerDone /\ df = WeeklyTip /\ weeks = MaxWeeks /\ posts_per_day = 1

\* the report of a loop that ended below its target: the report names the
\* week, or the slot month // interval of the month
Reported(u) ==
    \E r \in reports :
        /\ r.post = u.post
        /\ r.loop = u.loop
        /\ r.period = IF u.loop = "weekly" THEN u.period
                      ELSE u.period \div post_interval(u.post)

InHorizon(u) == u.loop = "weekly" \/ month_start_week(u.period) < weeks

\* C10: every standalone item and every selected group member that ends a week
\* or month of the horizon below its target is reported, and the run returns.
C10_UnderPlacementReported ==
    PlannerDone => \A u \in under : InHorizon(u) => Reported(u)

NotDue(m) == last_sent[m] # NaN /\ last_sent[m] < messages[m].frequency_days

\* C11: a message that was sent fewer than frequency_days days before the
\* planning date has no entry on any day of the week, after primary placement
\* and after gap fill.
C11_NotDueExcluded ==
    SmartRuns =>
        \A m \in 1..Len(messages) : NotDue(m) =>
            \A date \in 0..6 : ~HasId(sched[date], messages[m].id)

\* the score the claim gives for e days elapsed and frequency_days f
ClaimedPriority(e, f) ==
    IF e = NaN THEN 100
    ELSE IF e < f THEN 0
    ELSE IF e = f THEN 50
    ELSE Min2(50 + (e - f) * 5, 100)

PriorityValue ==
    prog = "priority" /\ priority # NaN =>
        /\ priority = ClaimedPriority(last_sent[1], messages[1].frequency_days)
        /\ priority >= 0 /\ priority <= 100

PriorityMonotone ==
    prog = "priority" /\ priority # NaN /\ last_sent[1] # NaN => priority' >= priority

\* C12: calculate_message_priority returns 100 for a message never sent, 0
\* before frequency_days have elapsed, 50 on the day, min(50 + 5 per day
\* overdue, 100) after it; the value is within 0..100 and does not decrease
\* from one day to the next.
C12_PriorityScore == []PriorityValue /\ [][PriorityMonotone]_vars

\* a message so long overdue that the score is capped
C12_Witness ==
    /\ prog = "priority" /\ last_sent[1] # NaN
    /\ last_sent[1] - messages[1].frequency_days > 10
    /\ priority = 100

\* validate_input has returned
Validated == prog \in {"main", "planner"} /\ pc.loop # "validate"

Rejected == prog = "main" /\ pc.loop = "rejected"

NoSchedule == all_days = <<>> /\ schedule = <<>>

\* a frequency, in halves, that is neither 0.5 nor a positive integer
InvalidFrequency(v) == v # NaN /\ v # Half /\ ~(v > 0 /\ v % 2 = 0)

AnyInvalidFrequency ==
    \E i \in 1..Len(df) : InvalidFrequency(df[i].B) \/ InvalidFrequency(df[i].C)

\* C13: a catalog with a weekly or monthly frequency that is neither 0.5 nor a
\* positive integer is rejected by validation and no schedule is built.
C13_InvalidFrequencyRejected ==
    Validated /\ AnyInvalidFrequency => ~is_valid /\ Rejected /\ NoSchedule

AnyBothSet == \E i \in 1..Len(df) : df[i].B # NaN /\ df[i].C # NaN

\* C14: a catalog with a row that sets both frequencies is rejected and main
\* stops with no schedule; the both-frequencies error is given only to a
\* catalog that has such a row.
C14_BothFrequencies ==
    Validated =>
        /\ AnyBothSet => ~is_valid /\ Rejected /\ NoSchedule
        /\ error_message = "both" => AnyBothSet

\* a sheet rejected for its second row, which sets both frequencies
C14_Witness ==
    /\ Rejected /\ error_message = "both"
    /\ Len(df) = 2 /\ df[1].C = NaN /\ df[2].B # NaN /\ df[2].C # NaN

\* an entry of column E that is not a number, or is the number of no data row
BadReference(entry, nrows) ==
    entry.kind = "word" \/ entry.value < 2 \/ entry.value > nrows + 1

AnyBadReference ==
    \E i \in 1..Len(df) : \E k \in 1..Len(df[i].E) : BadReference(df[i].E[k], Len(df))

\* C15: a catalog that passes validation references only existing rows, and a
\* catalog is rejected for its column E only if an entry of it is not a number
\* or is not the number of an existing row.
C15_AlternationValidation ==
    prog = "main" /\ Validated =>
        /\ is_valid => ~AnyBadReference
        /\ error_message \in {"format", "row"} => AnyBadReference

\* the days on which message m may be placed, and among them the least loaded
FitsOf(day_posts, m) ==
    {date \in 0..6 :
        /\ get_day_post_count(day_posts, date) < PostingTimes
        /\ can_add_post_to_day(day_posts, date, messages[m].id, messages[m].conflicts)}

LeastLoaded(day_posts, fits) ==
    {date \in fits : \A other \in fits :
        get_day_post_count(day_posts, date) <= get_day_post_count(day_posts, other)}

\* the placement loop of message m when every tie goes to the earliest date:
\* the week and the count it ends with
RECURSIVE EarliestLoop(_, _, _)
EarliestLoop(day_posts, m, count) ==
    IF count < weekly_target(m) /\ count < MaxAttempts /\ FitsOf(day_posts, m) # {}
    THEN LET ties == LeastLoaded(day_posts, FitsOf(day_posts, m))
             best_date == CHOOSE date \in ties : \A other \in ties : date <= other
         IN EarliestLoop([day_posts EXCEPT ![best_date] = Append(@, messages[m].id)],
                         m, count + 1)
    ELSE [days |-> day_posts, placed |-> count]

\* the counts of the primary pass when every tie goes to the earliest date
RECURSIVE EarliestCounts(_, _, _)
EarliestCounts(day_posts, idx, counts) ==
    IF idx > Len(message_priorities) THEN counts
    ELSE LET m == message_priorities[idx]
             end == EarliestLoop(day_posts, m, 0)
         IN EarliestCounts(end.days, idx + 1, [counts EXCEPT ![m] = end.placed])

PrimaryDone == SmartRuns /\ spc.phase \in {"gapfill", "convert", "done"}

\* C16: the number of placements of every message in the primary pass is the
\* same whatever the random choices among equally loaded days: it is the number
\* reached when every tie goes to the earliest date.
C16_CountsIndependentOfTies ==
    PrimaryDone =>
        mwf_placed = EarliestCounts([date \in 0..6 |-> <<>>], 1,
                                    [m \in 1..Len(messages) |-> 0])

\* a run leaves the catalog and the ledger as they were
Frame ==
    /\ df' = df /\ weeks' = weeks /\ posts_per_day' = posts_per_day
    /\ messages' = messages /\ last_sent' = last_sent

\* the state in which a run begins holds nothing of an earlier run
StartsFresh ==
    /\ prog = "planner" =>
          /\ all_days = EmptyGrid(weeks)
          /\ \A i \in 1..Len(df) :
                /\ \A k \in 1..Len(placed_in_week[i]) : placed_in_week[i][k] = 0
                /\ \A k \in 1..Len(placed_in_month[i]) : placed_in_month[i][k] = 0
          /\ reports = {}
    /\ prog = "smart" => sched = <<>> /\ \A m \in 1..Len(messages) : mwf_placed[m] = 0

FrameStep == Frame /\ (runs' # runs => StartsFresh')

\* the list of a later run of get_post_schedule is the list of the run before
ResultRepeats == PlannerDone /\ runs > 0 => schedule = returned

GroupsWith(p) == {k \in 1..Len(group_rows) : InKey(p, group_key(group_rows[k]))}

WellFormedGroups ==
    /\ \A p \in 1..Len(df) : Cardinality(GroupsWith(p)) <= 1
    /\ \A k \in 1..Len(alternation_groups) :
          /\ Len(alternation_groups[k].posts) >= 2
          /\ \A j \in 1..Len(alternation_groups[k].posts) :
                HasWeekly(alternation_groups[k].posts[j]) = alternation_groups[k].weekly

\* C19: in every catalog that validate_input accepted and that reached placement,
\* every item is a member of at most one alternation group, every group has at
\* least two members, and every member of a group has the frequency kind of the
\* group.
C19_AlternationWellFormed ==
    prog = "planner" /\ is_valid /\ pc.loop # "crashed" => WellFormedGroups

\* the period of a date for a group: its week, or its month of 4 weeks
PeriodOf(group, date) == IF group.weekly THEN date \div 7 ELSE date \div 28

\* the members of a group that have entries in a period of the returned list
MembersIn(group, period) ==
    {p \in Range(group.posts) :
        \E k \in 1..Len(schedule) :
            schedule[k].title = p /\ PeriodOf(group, schedule[k].day) = period}

\* C20: in the list get_post_schedule returns, for every alternation group and
\* every period (week of a weekly group, month of 4 weeks of a monthly group) at
\* most one member of the group has entries in the period.
C20_OneMemberPerPeriod ==
    PlannerDone =>
        \A g \in 1..Len(alternation_groups) : \A period \in 0..weeks :
            Cardinality(MembersIn(alternation_groups[g], period)) <= 1

\* the running for iteration is of an item or a group declared with 0.5
CurDeclaredHalf ==
    IF pc.stage = "groups" THEN RawFrequency(group_rows[pc.item]) = Half
    ELSE RawFrequency(CurPost) = Half

LoopOf(p) == IF HasWeekly(p) THEN "weekly" ELSE "monthly"

\* the number of entries of post p in a period of the returned list
EntriesIn(p, period) ==
    Cardinality({k \in 1..Len(schedule) :
                    /\ schedule[k].title = p
                    /\ schedule[k].day \div (IF HasWeekly(p) THEN 7 ELSE 28) = period})

\* a while loop of post p in a period ended below its target
EndedUnder(p, loop, period, grouped) ==
    \E u \in under : /\ u.post = p /\ u.loop = loop
                     /\ u.period = period /\ u.grouped = grouped

HalfItems == {p \in 1..Len(df) : ~in_alternation_group(p) /\ RawFrequency(p) = Half}

HalfGroups == {g \in 1..Len(group_rows) : RawFrequency(group_rows[g]) = Half}

\* every while loop of a 0.5 item or group runs in an even period with target 1
HalfRunsEven == InPlacement /\ CurDeclaredHalf => pc.period % 2 = 0 /\ CurFrequency = 1

\* a 0.5 item has no entry in an odd period, and in each even period it has one
\* entry or its loop ended without one
HalfItemOutput ==
    \A p \in HalfItems : \A period \in 0..LastPeriod(LoopOf(p)) :
        IF period % 2 # 0 THEN EntriesIn(p, period) = 0
        ELSE \/ EntriesIn(p, period) = 1
             \/ EntriesIn(p, period) = 0 /\ EndedUnder(p, LoopOf(p), period, FALSE)

\* in each even period the member a 0.5 group picks has an entry or its loop
\* ended without one
HalfGroupOutput ==
    \A g \in HalfGroups :
        LET group == alternation_groups[g]
            loop == IF group.weekly THEN "weekly" ELSE "monthly"
        IN \A period \in 0..LastPeriod(loop) :
              period % 2 = 0 =>
                 LET post == group.posts[(IF group.weekly
                                          THEN weekly_post_index(group, period)
                                          ELSE monthly_post_index(group, period)) + 1]
                 IN \/ EntriesIn(post, period) >= 1
                    \/ EndedUnder(post, loop, period, TRUE)

WeeksOf(p) ==
    {schedule[k].day \div 7 : k \in {j \in 1..Len(schedule) : schedule[j].title = p}}

\* C22: in the list get_post_schedule returns, no item with a monthly frequency
\* has two entries in one week or in two adjacent weeks, whether or not the two
\* weeks belong to the same month of 4 weeks.
C22_MonthlyExclusion ==
    PlannerDone =>
        \A p \in 1..Len(df) : HasMonthly(p) =>
            \A k1, k2 \in 1..Len(schedule) :
                /\ k1 # k2
                /\ schedule[k1].title = p
                /\ schedule[k2].title = p
                => Abs(schedule[k1].day \div 7 - schedule[k2].day \div 7) >= 2

\* a monthly item placed in the last week of the second month, and for that
\* reason not at all in the ninth week, the only week of the third month
C22_Witness ==
    /\ PlannerDone /\ weeks = 9
    /\ \E p \in 1..Len(df) :
          /\ HasMonthly(p) /\ ~in_alternation_group(p)
          /\ 7 \in WeeksOf(p) /\ 8 \notin WeeksOf(p)
          /\ EndedUnder(p, "monthly", 2, FALSE)

\* the days of the week of the running loop that are under capacity and pass the
\* validity check for the post of the loop
WeeklyCandidates ==
    {d \in 0..6 : /\ Len(all_days[pc.period][d]) < posts_per_day
                  /\ can_add_post(all_days, pc.period, d, CurPost, FALSE)}

\* a placement of the weekly loops goes to a candidate day of minimal load
WeeklyLeastLoaded ==
    prog = "planner" /\ pc.loop = "weekly" /\ all_days' # all_days =>
        \E d \in WeeklyCandidates :
            /\ all_days' = [all_days EXCEPT ![pc.period][d] = Append(@, CurPost)]
            /\ \A other \in WeeklyCandidates :
                  get_day_load(all_days, pc.period, d)
                      <= get_day_load(all_days, pc.period, other)

\* a placement of the primary pass goes to a candidate day of minimal count
SmartLeastLoaded ==
    prog = "smart" /\ spc.phase = "primary" /\ sched' # sched =>
        \E date \in FitsOf(sched, CurMessage) :
            /\ sched' = [sched EXCEPT ![date] = Append(@, messages[CurMessage].id)]
            /\ \A other \in FitsOf(sched, CurMessage) :
                  get_day_post_count(sched, date) <= get_day_post_count(sched, other)

\* C23: every placement of the weekly loops of get_post_schedule and of the
\* primary pass of get_planned_posts_for_week_smart goes to a day whose number
\* of placed items is minimal among the days of the week that are under the
\* capacity and pass the validity check for the item.
C23_LeastLoaded == [][WeeklyLeastLoaded /\ SmartLeastLoaded]_vars

\* the second item went to the empty day 1 although day 0, with one item and
\* room for another, passes the check for it
C23_Witness ==
    /\ prog = "planner" /\ pc.loop = "weekly" /\ pc.period = 0
    /\ posts_per_day >= 2
    /\ all_days[0][0] = <<1>> /\ all_days[0][1] = <<2>>
    /\ can_add_post([all_days EXCEPT ![0][1] = <<>>], 0, 0, 2, FALSE)

BeforeFlattening ==
    prog = "planner" /\ pc.loop \in {"weekly", "monthly", "report", "balance", "flatten"}

\* C24: in every state of get_post_schedule before the list is built (after each
\* placement and each week of the balancing pass) no day holds more than
\* posts_per_day items.
C24_CapacityDuringPlacement ==
    BeforeFlattening =>
        \A w \in DOMAIN all_days : \A d \in 0..6 : Len(all_days[w][d]) <= posts_per_day

\* every day of the week is at capacity and the loop of a further item ended
\* without a placement
C24_Witness ==
    /\ BeforeFlattening
    /\ \A d \in 0..6 : Len(all_days[0][d]) = posts_per_day
    /\ \E u \in under : u.placed = 0

SmartDone == prog = "smart" /\ spc.phase = "done"

\* the returned list has one entry for each date and posting time of the week
GridComplete == SmartDone => planned_total = 7 * PostingTimes

\* gap fill appends the empty slot only when no message passes for the date
PlaceholderOnlyIfNoFit ==
    /\ prog = "smart" /\ spc.phase = "gapfill"
    /\ sched' = [sched EXCEPT ![spc.idx] = Append(@, NaN)]
    => \A m \in 1..Len(messages) :
           ~can_add_post_to_day(sched, spc.idx, messages[m].id, messages[m].conflicts)

\* C25: for any catalog, the empty one included, and any ledger,
\* get_planned_posts_for_week_smart returns one entry, filled or empty, for each
\* date and posting time of the week, 7 * len(POSTING_TIMES) in all, and a slot
\* is the empty placeholder only if no message passed the validity check for its
\* day when it was filled.
C25_CompleteGrid == []GridComplete /\ [][PlaceholderOnlyIfNoFit]_vars

\* the messages given a weekly target: those of priority above 0
Eligible == Range(message_priorities)

\* C26: an eligible message has the weekly target 0 only if its frequency_days
\* is a month (28 days) or more, every eligible message with frequency_days of
\* at most 21 has a target of at least 1, and of two eligible messages the one
\* with the larger frequency_days never has the larger target.
C26_WeeklyTarget ==
    prog = "smart" /\ spc.phase \notin {"idle", "start"} =>
        /\ \A m \in Eligible :
              /\ weekly_target(m) = 0 => messages[m].frequency_days >= 28
              /\ messages[m].frequency_days <= 21 => weekly_target(m) >= 1
        /\ \A m1, m2 \in Eligible :
              messages[m1].frequency_days <= messages[m2].frequency_days
                  => weekly_target(m1) >= weekly_target(m2)

\* the step is a run of post_message in which select_random_message returned m
Returned(m) == prog = "live" /\ today' = today /\ selected' = messages[m].id

Conflicting(m, other) ==
    other \in messages[m].conflicts \/ \E k \in 1..Len(messages) :
        messages[k].id = other /\ messages[m].id \in messages[k].conflicts

\* C27: select_random_message never returns a message that is declared
\* conflicting with a message already successfully sent today, whether the
\* conflict is listed on the returned message or on the message already sent.
C27_LiveConflicts ==
    [][\A m \in 1..Len(messages) :
          Returned(m) => \A other \in get_today_sent_messages : ~Conflicting(m, other)]_vars

\* the messages select_random_message may return
Eligibility == {m \in 1..Len(messages) : is_message_available(m)}

\* a returned message has no successful send less than frequency_days ago
Gated ==
    \A m \in 1..Len(messages) :
        Returned(m) =>
            \A r \in message_history :
                r.message_id = messages[m].id /\ r.success
                    => today >= r.sent_date + messages[m].frequency_days

\* a run that failed on every channel leaves the eligibility of its message
FailureKeepsEligibility ==
    \A m \in 1..Len(messages) :
        Returned(m) /\ success_count' = 0 =>
            is_message_available(m)' = is_message_available(m)

\* C28: once a message with frequency_days >= 1 has been sent successfully to
\* at least one channel on day D, select_random_message does not return it on a
\* day before D + frequency_days, and a run in which the sending failed on every
\* channel does not change the eligibility of the message.
C28_FrequencyGating == [][Gated /\ FailureKeepsEligibility]_vars

\* a message due every 2 days, sent successfully on day 0 with a failure on one
\* channel, and returned and sent again on day 2
C28_Witness ==
    /\ prog = "live" /\ today = 2
    /\ \E m \in 1..Len(messages) :
          /\ messages[m].frequency_days = 2
          /\ selected = messages[m].id
          /\ [message_id |-> messages[m].id, sent_date |-> 0, success |-> TRUE] \in message_history
          /\ [message_id |-> messages[m].id, sent_date |-> 0, success |-> FALSE] \in message_history
          /\ [message_id |-> messages[m].id, sent_date |-> 2, success |-> TRUE] \in message_history
          /\ \A r \in message_history : r.message_id = messages[m].id => r.sent_date # 1

\* the period a report names lies inside the planning horizon
NamedInHorizon(r) ==
    IF r.loop = "weekly" THEN r.period < weeks
    ELSE month_start_week(r.period) < weeks

\* C29: every under-placement report names a period inside the planning
\* horizon in which the item was due to be attempted and was placed fewer
\* times than its target.
C29_NoSpuriousReports ==
    PlannerDone =>
        \A r \in reports :
            /\ NamedInHorizon(r)
            /\ r.period % post_interval(r.post) = 0
            /\ r.placed < post_frequency(r.post)

\* the least element of a set of indices under a load, ties to the lowest index
LowestLeast(S, Load(_)) ==
    CHOOSE x \in S : \A o \in S : Load(x) < Load(o) \/ (Load(x) = Load(o) /\ x <= o)

\* a placement of the weekly loops goes to the lowest day among the candidate
\* days of minimal load
WeeklyLowestIndex ==
    prog = "planner" /\ pc.loop = "weekly" /\ all_days' # all_days =>
        LET d0 == LowestLeast(WeeklyCandidates,
                              LAMBDA d : get_day_load(all_days, pc.period, d))
        IN all_days' = [all_days EXCEPT ![pc.period][d0] = Append(@, CurPost)]

MonthlyCandidates(w) ==
    {d \in 0..6 : /\ Len(all_days[w][d]) < posts_per_day
                  /\ can_add_post(all_days, w, d, CurPost, TRUE)}

\* a placement of the monthly loops goes to the lowest week of minimal load that
\* has a candidate day, and in it to the lowest candidate day of minimal load
MonthlyLowestIndex ==
    prog = "planner" /\ pc.loop = "monthly" /\ all_days' # all_days =>
        LET open == {w \in month_start_week(pc.period)..(month_end_week(pc.period) - 1) :
                        MonthlyCandidates(w) # {}}
            w0 == LowestLeast(open, LAMBDA w : get_week_load(all_days, w))
            d0 == LowestLeast(MonthlyCandidates(w0),
                              LAMBDA d : get_day_load(all_days, w0, d))
        IN all_days' = [all_days EXCEPT ![w0][d0] = Append(@, CurPost)]

\* C30: for a fixed catalog, weeks, posts_per_day and start date every call of
\* get_post_schedule returns the same list, and every placement is fixed by the
\* grid: ties between equally loaded days go to the lowest day index.
C30_Determinism ==
    []ResultRepeats /\ [][WeeklyLowestIndex /\ MonthlyLowestIndex]_vars

\* a third call has returned the list of the calls before it: the weekly item
\* met seven empty days and went to day 0, the monthly item met four equally
\* loaded weeks and six empty days and went to day 1 of week 0
C30_Witness ==
    /\ PlannerDone /\ runs = MaxRuns /\ weeks > 4
    /\ schedule = returned
    /\ \E k \in 1..Len(schedule) :
          schedule[k].day = 0 /\ schedule[k].title # EmptyTitle
                              /\ HasWeekly(schedule[k].title)
    /\ \E k \in 1..Len(schedule) :
          schedule[k].day = 1 /\ schedule[k].title # EmptyTitle
                              /\ ~HasWeekly(schedule[k].title)

====
